---- MODULE Spec2Model ----
(***************************************************************************)
(* Role-generation orchestration core of the RBAC role mining service:     *)
(* DataProcessor (consolidator), AzureOpenAIClient (gateway) and the two   *)
(* orchestrators RoleGeneratorService / EnhancedRoleGeneratorService.      *)
(* One orchestrator instance is modelled; `flavor` says which class it is. *)
(* Coroutines run on one asyncio event loop: every action is the code      *)
(* between two suspension points of one coroutine.                         *)
(***************************************************************************)
EXTENDS Integers, Sequences, FiniteSets, TLC

\* ------------------------------------------------------------------ bounds
MaxOps == 3            \* invocations of the orchestrator's public methods
MaxBatches == 1        \* of which batch invocations
MaxBatchLen == 2       \* longest explicit cluster_ids list of a batch
MaxLimit == 1          \* largest explicit concurrent_limit besides the default

\* ---------------------------------------------------------- program constants
DefaultLimitSingle == 5
DefaultLimitMulti == 3
PromptPrefixLen == 20
DescriptionMax == 200
RiskLevel == {"LOW", "MEDIUM", "HIGH", "CRITICAL"}
RoleStyle == {"business_focused", "technical_focused", "hierarchical_focused"}

None == [none |-> TRUE]             \* Python None where an object is expected
NoneStr == "None"                   \* Python None where a string is expected
Some(n) == [some |-> n]             \* an Optional[int] that is set
Missing == [file |-> "missing"]     \* the file does not exist
Corrupt == [file |-> "corrupt"]     \* the file exists and its reader raises
EmptyDict == [k \in {} |-> None]

Get(m, k, default) == IF k \in DOMAIN m THEN m[k] ELSE default

\* ------------------------------------------------------------ input files
Tok(id) == [pad |-> FALSE, id |-> id]
PadTok(id) == [pad |-> TRUE, id |-> id]
Strip(tok) == tok.id

Catalog1 ==
  [e \in {"E1", "E2"} |->
     [name |-> IF e = "E1" THEN "Read DB" ELSE "Write DB", description |-> "d"]]

ClusterTable1 ==
  [columns |-> {"Cluster_ID", "Core_Entitlements", "User_Count"},
   rows |-> << [Cluster_ID |-> "C1", Core_Entitlements |-> <<Tok("E1"), PadTok("E2")>>],
               [Cluster_ID |-> "C2", Core_Entitlements |-> <<Tok("E1"), Tok("E9"), Tok("E1")>>] >>]

ClusterTableNoCol ==
  [columns |-> {"Cluster_ID", "User_Count"},
   rows |-> << [Cluster_ID |-> "C1", Core_Entitlements |-> <<>>] >>]

UserTable1 ==
  [columns |-> {"User_ID", "Cluster_ID", "Job_Title", "Department"},
   rows |-> << [Cluster_ID |-> "C1", Job_Title |-> "Analyst", Department |-> "Fin"],
               [Cluster_ID |-> "C1", Job_Title |-> "Analyst", Department |-> "Fin"],
               [Cluster_ID |-> "C1", Job_Title |-> "Clerk", Department |-> "Fin"] >>]

\* tables and a catalog that an upload brings in place of the first ones
Catalog2 ==
  [e \in {"E1", "E2"} |->
     [name |-> IF e = "E1" THEN "Read Ledger" ELSE "Post Ledger", description |-> "d"]]

ClusterTable2 ==
  [columns |-> {"Cluster_ID", "Core_Entitlements", "User_Count"},
   rows |-> << [Cluster_ID |-> "C1", Core_Entitlements |-> <<Tok("E2")>>] >>]

UserTable2 ==
  [columns |-> {"User_ID", "Cluster_ID", "Job_Title", "Department"},
   rows |-> << [Cluster_ID |-> "C1", Job_Title |-> "Auditor", Department |-> "Risk"] >>]

FullFiles == [catalog |-> Catalog1, clusters |-> ClusterTable1, users |-> UserTable1]

\* ids that callers pass: two rows of the cluster table and an id it lacks
ClusterIds == {"C1", "C2", "C9"}
CallIds == {"C1", "C9"}

\* --------------------------------------------------------- DataProcessor
NewDataProcessor ==
  [entitlement_metadata |-> EmptyDict, cluster_summary |-> None, user_metadata |-> None]

\* cluster_summary is None or cluster_summary.empty
NeedsLoad(dp) ==
  \/ dp.cluster_summary = None
  \/ Len(dp.cluster_summary.rows) = 0

\* load_data_files: the three reads in order; a reader that raises aborts the
\* rest and the tables read before it stay assigned.
LoadDataFiles(dp, fs) ==
  LET d1 == IF fs.catalog \in {Missing, Corrupt} THEN dp
            ELSE [dp EXCEPT !.entitlement_metadata = fs.catalog]
      d2 == IF fs.clusters \in {Missing, Corrupt} THEN d1
            ELSE [d1 EXCEPT !.cluster_summary = fs.clusters]
      d3 == IF fs.users \in {Missing, Corrupt} THEN d2
            ELSE [d2 EXCEPT !.user_metadata = fs.users]
  IN  IF fs.catalog = Corrupt THEN [raised |-> TRUE, dp |-> dp]
      ELSE IF fs.clusters = Corrupt THEN [raised |-> TRUE, dp |-> d1]
      ELSE IF fs.users = Corrupt THEN [raised |-> TRUE, dp |-> d2]
      ELSE [raised |-> FALSE, dp |-> d3]

\* a row filter that hands back the whole table
SelectRowsUnfiltered(rows, cid) == rows

\* df[df['Cluster_ID'] == cluster_id]
RECURSIVE SelectRows(_, _)
SelectRows(rows, cid) ==
  IF rows = <<>> THEN <<>>
  ELSE IF Head(rows).Cluster_ID = cid
       THEN <<Head(rows)>> \o SelectRows(Tail(rows), cid)
       ELSE SelectRows(Tail(rows), cid)

\* the join without ent_id.strip(): an id written with blanks around it is
\* looked up as written and not found
RECURSIVE ResolveEntitlementsUnstripped(_, _)
ResolveEntitlementsUnstripped(toks, meta) ==
  IF toks = <<>> THEN <<>>
  ELSE LET ent_id == Strip(Head(toks))
           rest == ResolveEntitlementsUnstripped(Tail(toks), meta)
       IN  IF ent_id \in DOMAIN meta /\ ~Head(toks).pad
           THEN <<[id |-> ent_id, name |-> meta[ent_id].name,
                   description |-> meta[ent_id].description]>> \o rest
           ELSE rest

\* the loop over Core_Entitlements.split(',')
RECURSIVE ResolveEntitlements(_, _)
ResolveEntitlements(toks, meta) ==
  IF toks = <<>> THEN <<>>
  ELSE LET ent_id == Strip(Head(toks))
           rest == ResolveEntitlements(Tail(toks), meta)
       IN  IF ent_id \in DOMAIN meta
           THEN <<[id |-> ent_id, name |-> meta[ent_id].name,
                   description |-> meta[ent_id].description]>> \o rest
           ELSE rest

CountOf(rows, col, v) == Cardinality({i \in 1..Len(rows) : rows[i][col] = v})
ValueCounts(rows, col) ==
  [v \in {rows[i][col] : i \in 1..Len(rows)} |-> CountOf(rows, col, v)]

\* keys of a value_counts() result, most frequent first, at most k of them
RECURSIVE TopKeys(_, _)
TopKeys(dist, k) ==
  IF k = 0 \/ DOMAIN dist = {} THEN <<>>
  ELSE LET best == CHOOSE v \in DOMAIN dist : \A w \in DOMAIN dist : dist[w] <= dist[v]
       IN  <<best>> \o TopKeys([w \in DOMAIN dist \ {best} |-> dist[w]], k - 1)

CreateUserSummary(rows) ==
  LET job_titles == ValueCounts(rows, "Job_Title")
      departments == ValueCounts(rows, "Department")
  IN  [total_users |-> Len(rows),
       top_job_titles |-> TopKeys(job_titles, 5),
       top_departments |-> TopKeys(departments, 3),
       job_title_distribution |-> job_titles,
       department_distribution |-> departments]

\* process_cluster: every exception leaves as DataProcessingException
ProcessCluster(dp, cid) ==
  LET Raise == [raised |-> TRUE, data |-> None]
  IN  IF dp.cluster_summary = None THEN Raise
      ELSE IF "Cluster_ID" \notin dp.cluster_summary.columns THEN Raise
      ELSE LET cluster_row == SelectRows(dp.cluster_summary.rows, cid)
           IN  IF cluster_row = <<>> THEN Raise
               ELSE IF "Core_Entitlements" \notin dp.cluster_summary.columns THEN Raise
               ELSE IF dp.user_metadata = None THEN Raise
               ELSE IF {"Cluster_ID", "Job_Title", "Department"} \ dp.user_metadata.columns # {} THEN Raise
               ELSE LET ents == ResolveEntitlements(cluster_row[1].Core_Entitlements,
                                                    dp.entitlement_metadata)
                    IN  [raised |-> FALSE,
                         data |-> [cluster_id |-> cid,
                                   core_entitlements |-> ents,
                                   user_summary |-> CreateUserSummary(
                                       SelectRows(dp.user_metadata.rows, cid)),
                                   entitlement_count |-> Len(ents)]]

GetAllClusterIds(dp) ==
  IF dp.cluster_summary # None
  THEN [i \in 1..Len(dp.cluster_summary.rows) |-> dp.cluster_summary.rows[i].Cluster_ID]
  ELSE <<>>

\* ------------------------------------------------------------ PromptManager
\* Both templates open with the same line; the text is a sequence of
\* characters so that prompt[:20] is a real slice.
PromptHead ==
  << "\n", "Y", "o", "u", " ", "a", "r", "e", " ", "a", "n", "a", "l", "y", "z",
     "i", "n", "g", " ", "a", " ", "c", "l", "u", "s", "t", "e", "r" >>

CreatePrompt(cluster_data) == PromptHead \o <<cluster_data.cluster_id>>

Prefix(str, n) == SubSeq(str, 1, IF Len(str) < n THEN Len(str) ELSE n)

\* ------------------------------------------------------- AzureOpenAIClient
\* Parsed JSON values: an object carries its mapping, anything else is opaque.
JObject(m) == [type |-> "object", map |-> m]
JArray == [type |-> "array"]
JsonError == [type |-> "JSONDecodeError"]
NoMatch == [type |-> "nomatch"]

\* A text is known by an identity and its length; a name is a sequence of parts.
Text(id, len) == [chars |-> id, len |-> len]
Truncate(text, n) == IF text.len > n THEN [text EXCEPT !.len = n] ELSE text

\* A response body: content (None or a text), what json.loads makes of the
\* whole text, and what it makes of the span first '{' .. last '}'.
Body(content, whole, span) == [content |-> content, whole |-> whole, span |-> span]

GoodSingle ==
  [role_name |-> <<"Finance Analyst">>, description |-> Text("desc", 4), rationale |-> "why",
   risk_level |-> "HIGH"]
BadRisk == [role_name |-> <<"Finance Analyst">>, risk_level |-> "SEVERE"]
EmptyObject == EmptyDict
GoodMulti ==
  [role_options |->
     << [option_number |-> 1, role_name |-> <<"Finance Ops">>, style |-> "business_focused",
         description |-> Text("d1", 2), rationale |-> "r1"],
        [option_number |-> 2, role_name |-> <<"DB Reader">>, style |-> "technical_focused",
         description |-> Text("d2", 2), rationale |-> "r2"],
        [option_number |-> 3, role_name |-> <<"Analyst L2">>, style |-> "hierarchical_focused",
         description |-> Text("d3", 2), rationale |-> "r3"] >>,
   recommended_option |-> 2, recommendation_reason |-> "fits", risk_level |-> "LOW"]

Good(fl) == IF fl = "single" THEN GoodSingle ELSE GoodMulti

\* bodies the model answers with over the direct transport
Bodies(fl) ==
  { Body(Text("json", 80), JObject(Good(fl)), JObject(Good(fl))),
    Body(Text("badrisk", 40), JObject(BadRisk), JObject(BadRisk)),
    Body(Text("array", 10), JArray, NoMatch),
    Body(Text("prose", 250), JsonError, NoMatch) }

\* what the network call of an invocation produces
NetFailure == [net |-> "failure"]
NetOutcomes(fl) == {NetFailure} \cup { [net |-> "ok", body |-> b] : b \in Bodies(fl) }

Returned(v) == [raised |-> FALSE, value |-> v]
Raised == [raised |-> TRUE, value |-> None]

\* the exception a call ends with, known by its class
Err(class) == [error |-> class]

\* a fallback record that takes the whole prompt and the whole body
FallbackRecordUncut(prompt, content) ==
  [role_name |-> <<"Role_">> \o prompt,
   description |-> content,
   rationale |-> "Generated from LLM response",
   risk_level |-> "MEDIUM"]

\* the dict built when neither parse gave a value
FallbackRecord(prompt, content) ==
  [role_name |-> <<"Role_">> \o Prefix(prompt, PromptPrefixLen),
   description |-> Truncate(content, DescriptionMax),
   rationale |-> "Generated from LLM response",
   risk_level |-> "MEDIUM"]

\* a direct transport that answers a failed request with the fallback record
GenerateDirectSwallowing(prompt, outcome) ==
  IF outcome = NetFailure
  THEN Returned(JObject(FallbackRecord(prompt, Text("", 0))))
  ELSE LET body == outcome.body
       IN  IF body.content = None THEN Raised
           ELSE IF body.whole # JsonError THEN Returned(body.whole)
           ELSE IF body.span # NoMatch /\ body.span # JsonError THEN Returned(body.span)
           ELSE Returned(JObject(FallbackRecord(prompt, body.content)))

\* _generate_direct with use_json_mode = True, after the network call
GenerateDirect(prompt, outcome) ==
  IF outcome = NetFailure THEN Raised
  ELSE LET body == outcome.body
       IN  IF body.content = None THEN Raised            \* json.loads(None): TypeError
           ELSE IF body.whole # JsonError THEN Returned(body.whole)
           ELSE IF body.span # NoMatch /\ body.span # JsonError THEN Returned(body.span)
           ELSE Returned(JObject(FallbackRecord(prompt, body.content)))

\* requests one transport call sends: `self.client.chat.completions.create(...)`
\* and `chain.ainvoke(...)` are called once, outside any loop
NetAttempts == 1

\* _generate_with_langchain: the chain's parser result, or its exception
ChainOutcomes(fl) ==
  {Raised, Returned(JArray), Returned(JObject(Good(fl))), Returned(JObject(BadRisk)),
   Returned(JObject(EmptyObject))}

\* ------------------------------------------------------------ orchestrators
StyleMap(style_str) == IF style_str \in RoleStyle THEN style_str ELSE "business_focused"

RoleOption(opt_data, cid) ==
  [option_number |-> Get(opt_data, "option_number", 1),
   role_name |-> Get(opt_data, "role_name", <<"Role_", cid>>),
   style |-> StyleMap(Get(opt_data, "style", "business_focused")),
   description |-> Get(opt_data, "description", Text("", 0)),
   rationale |-> Get(opt_data, "rationale", "")]

\* GeneratedRole(...) of generate_single_role; RiskLevel(x) raises ValueError
BuildGeneratedRole(cid, resp, cluster_data, oid) ==
  IF resp.type # "object" THEN Raised
  ELSE IF Get(resp.map, "risk_level", "MEDIUM") \notin RiskLevel THEN Raised
  ELSE Returned([cluster_id |-> cid, oid |-> oid,
                 role_name |-> Get(resp.map, "role_name", <<"Role_", cid>>),
                 description |-> Get(resp.map, "description", Text("", 0)),
                 rationale |-> Get(resp.map, "rationale", ""),
                 risk_level |-> Get(resp.map, "risk_level", "MEDIUM"),
                 entitlements |-> cluster_data.core_entitlements,
                 user_summary |-> cluster_data.user_summary,
                 reviewed |-> FALSE, approved |-> FALSE])

\* GeneratedRoleSet(...) of generate_multiple_options
BuildGeneratedRoleSet(cid, resp, cluster_data, oid) ==
  IF resp.type # "object" THEN Raised
  ELSE LET opts == Get(resp.map, "role_options", <<>>)
       IN  Returned(
                  [cluster_id |-> cid, oid |-> oid,
                   role_options |-> [i \in 1..Len(opts) |-> RoleOption(opts[i], cid)],
                   recommended_option |-> Get(resp.map, "recommended_option", 1),
                   recommendation_reason |-> Get(resp.map, "recommendation_reason", ""),
                   risk_level |-> Get(resp.map, "risk_level", "MEDIUM"),
                   entitlements |-> cluster_data.core_entitlements,
                   user_summary |-> cluster_data.user_summary,
                   selected_option |-> None,
                   reviewed |-> FALSE, approved |-> FALSE, feedback |-> NoneStr])

BuildRecord(fl, cid, resp, cluster_data, oid) ==
  IF fl = "single" THEN BuildGeneratedRole(cid, resp, cluster_data, oid)
  ELSE BuildGeneratedRoleSet(cid, resp, cluster_data, oid)

\* ------------------------------------------------------------------- state
VARIABLES
  flavor,            \* "single": RoleGeneratorService, "multi": EnhancedRoleGeneratorService
  files,             \* content of settings.INPUT_DIR
  env,               \* whether the Azure client and the LangChain model can be built
  use_langchain,     \* settings.USE_LANGCHAIN
  llm_client,        \* self.llm_client: None or the AzureOpenAIClient
  init_runs,         \* times the body of _initialize_client has run
  net_calls,         \* requests the gateway has sent to the model endpoint
  data_processor,    \* self.data_processor
  clusters_data_processor,  \* the DataProcessor of the clusters endpoints module
  generated_roles,   \* self.generated_roles / self.generated_role_sets
  inflight,          \* direct generate_* calls suspended in chain.ainvoke
  batches,           \* running batch coroutines with their generate_with_limit children
  ops,               \* number of invocations of public methods so far
  batch_calls,       \* batch invocations started so far
  forced_seen,       \* some invocation so far passed force_regenerate=True
  ret                \* outcome of the call that ended most recently

vars == << flavor, files, clusters_data_processor, env, use_langchain, llm_client, init_runs, net_calls, data_processor,
           generated_roles, inflight, batches, ops, batch_calls, forced_seen, ret >>

Direct == [creds_ok |-> TRUE, langchain_ok |-> FALSE, use_langchain |-> FALSE]
LangChain == [creds_ok |-> TRUE, langchain_ok |-> TRUE, use_langchain |-> TRUE]
NoLangChain == [creds_ok |-> TRUE, langchain_ok |-> FALSE, use_langchain |-> TRUE]
BadCreds == [creds_ok |-> FALSE, langchain_ok |-> FALSE, use_langchain |-> FALSE]

\* the deployments the model starts from: input files and gateway environment
Scenarios ==
  { [files |-> FullFiles, gw |-> g] : g \in {Direct, LangChain, NoLangChain, BadCreds} }
  \cup
  { [files |-> [FullFiles EXCEPT !.users = Missing], gw |-> Direct],
    [files |-> [FullFiles EXCEPT !.clusters = Missing], gw |-> Direct],
    [files |-> [FullFiles EXCEPT !.clusters = Corrupt], gw |-> Direct],
    [files |-> [FullFiles EXCEPT !.clusters = ClusterTableNoCol], gw |-> Direct] }

NewClient == [initialized |-> FALSE, client |-> FALSE, langchain_model |-> FALSE]

Init ==
  /\ flavor \in {"single", "multi"}
  /\ \E sc \in Scenarios :
       /\ files = sc.files
       /\ env = [creds_ok |-> sc.gw.creds_ok, langchain_ok |-> sc.gw.langchain_ok]
       /\ use_langchain = sc.gw.use_langchain
  /\ llm_client = None
  /\ init_runs = 0
  /\ net_calls = 0
  /\ data_processor = NewDataProcessor
  /\ clusters_data_processor = NewDataProcessor
  /\ generated_roles = [c \in ClusterIds |-> None]
  /\ inflight = <<>>
  /\ batches = <<>>
  /\ ops = 0
  /\ batch_calls = 0
  /\ forced_seen = FALSE
  /\ ret = None

\* ------------------------------------------------------------ gateway init
\* an ensure_initialized that forgets the `initialized` flag and builds the
\* client again on every call
EnsureInitializedEveryCall(cl, use_lc) ==
  IF ~env.creds_ok
  THEN [raised |-> TRUE, client |-> cl, use_lc |-> use_lc, ran |-> 1]
  ELSE [raised |-> FALSE,
        client |-> [initialized |-> TRUE, client |-> TRUE,
                    langchain_model |-> use_lc /\ env.langchain_ok],
        use_lc |-> use_lc /\ env.langchain_ok,
        ran |-> 1]

\* ensure_initialized with _initialize_client inlined
EnsureInitialized(cl, use_lc) ==
  IF cl.initialized
  THEN [raised |-> FALSE, client |-> cl, use_lc |-> use_lc, ran |-> 0]
  ELSE IF ~env.creds_ok
  THEN [raised |-> TRUE, client |-> cl, use_lc |-> use_lc, ran |-> 1]
  ELSE [raised |-> FALSE,
        client |-> [initialized |-> TRUE, client |-> TRUE,
                    langchain_model |-> use_lc /\ env.langchain_ok],
        use_lc |-> use_lc /\ env.langchain_ok,
        ran |-> 1]

\* ---------------------------------------------------------------- generate
\* what a generate_* invocation reports when it ends: the reference it returned
\* or that it raised, whether it answered from the cache, loaded the tables or
\* called the gateway, and the record its store replaced in the cache
Outcome(cid, force, raised, value, hit, loaded, called, replaced) ==
  [op |-> "generate", cid |-> cid, force |-> force, raised |-> raised, value |-> value,
   hit |-> hit, loaded |-> loaded, called |-> called, replaced |-> replaced]

\* a returned record is the cached object itself, not a copy: callers hold a
\* reference, named here by the cluster id and the object's identity
Ref(role) == [cid |-> role.cluster_id, oid |-> role.oid]

\* identity of the record object the next GeneratedRole(...) for cid creates
NextOid(cache, cid) == IF cache[cid] = None THEN 1 ELSE cache[cid].oid + 1

\* what a generate_* call raises once the gateway was called: generate_role
\* wraps whatever went wrong as LLMException; llm_response.get on a value that
\* is no dict is an AttributeError, RiskLevel(...) of an unknown level a ValueError
StoreError(resp) ==
  IF resp.raised THEN Err("LLMException")
  ELSE IF resp.value.type # "object" THEN Err("AttributeError")
  ELSE Err("ValueError")

\* the store done too early: the entry for cid is dropped before the response is
\* mapped, and a failure leaves it dropped
LandEvicting(cid, force, resp, cluster_data, loaded) ==
  LET br == BuildRecord(flavor, cid, resp.value, cluster_data,
                        NextOid(generated_roles, cid))
  IN  IF resp.raised \/ br.raised
      THEN [cache |-> [generated_roles EXCEPT ![cid] = None],
            ret |-> Outcome(cid, force, TRUE, StoreError(resp), FALSE, loaded, TRUE, None)]
      ELSE [cache |-> [generated_roles EXCEPT ![cid] = br.value],
            ret |-> Outcome(cid, force, FALSE, Ref(br.value), FALSE, loaded, TRUE,
                           generated_roles[cid])]

\* a store that fills the new record's risk level from the record it replaces
LandMerging(cid, force, resp, cluster_data, loaded) ==
  LET br == BuildRecord(flavor, cid, resp.value, cluster_data,
                        NextOid(generated_roles, cid))
      old == generated_roles[cid]
      new == IF old = None THEN br.value
             ELSE [br.value EXCEPT !.risk_level = old.risk_level]
  IN  IF resp.raised \/ br.raised
      THEN [cache |-> generated_roles,
            ret |-> Outcome(cid, force, TRUE, StoreError(resp), FALSE, loaded, TRUE, None)]
      ELSE [cache |-> [generated_roles EXCEPT ![cid] = new],
            ret |-> Outcome(cid, force, FALSE, Ref(new), FALSE, loaded, TRUE,
                           generated_roles[cid])]

\* a regeneration that copies the review flags of the record it replaces
LandKeepingFlags(cid, force, resp, cluster_data, loaded) ==
  LET br == BuildRecord(flavor, cid, resp.value, cluster_data,
                        NextOid(generated_roles, cid))
      old == generated_roles[cid]
      new == IF old = None THEN br.value
             ELSE [br.value EXCEPT !.reviewed = old.reviewed, !.approved = old.approved]
  IN  IF resp.raised \/ br.raised
      THEN [cache |-> generated_roles,
            ret |-> Outcome(cid, force, TRUE, StoreError(resp), FALSE, loaded, TRUE, None)]
      ELSE [cache |-> [generated_roles EXCEPT ![cid] = new],
            ret |-> Outcome(cid, force, FALSE, Ref(new), FALSE, loaded, TRUE,
                           generated_roles[cid])]

\* the lines after `await llm_client.generate_role(prompt)`: build the record,
\* store it, return it; resp is what generate_role returned or that it raised
Land(cid, force, resp, cluster_data, loaded) ==
  LET br == BuildRecord(flavor, cid, resp.value, cluster_data,
                        NextOid(generated_roles, cid))
  IN  IF resp.raised \/ br.raised
      THEN [cache |-> generated_roles,
            ret |-> Outcome(cid, force, TRUE, StoreError(resp), FALSE, loaded, TRUE, None)]
      ELSE [cache |-> [generated_roles EXCEPT ![cid] = br.value],
            ret |-> Outcome(cid, force, FALSE, Ref(br.value), FALSE, loaded, TRUE,
                           generated_roles[cid])]

\* the cache test with the force flag read the wrong way round
CacheHitWhenForced(cid, force) == generated_roles[cid] # None /\ force

\* the cache test that forgets the force flag
CacheHitIgnoringForce(cid, force) == generated_roles[cid] # None

\* `if cluster_id in self.generated_roles and not force_regenerate`
CacheHit(cid, force) == generated_roles[cid] # None /\ ~force

\* generate_single_role / generate_multiple_options from entry to the first
\* suspension or to the end: cache check, lazy load, snapshot, client,
\* ensure_initialized, then the transport. `out` is the network outcome of the
\* blocking direct call, if it comes to that.
Begin(cid, force, out) ==
  LET need == NeedsLoad(data_processor)
      ld == IF need THEN LoadDataFiles(data_processor, files)
            ELSE [raised |-> FALSE, dp |-> data_processor]
      pcl == ProcessCluster(ld.dp, cid)
      cl0 == IF llm_client = None THEN NewClient ELSE llm_client
      ini == EnsureInitialized(cl0, use_langchain)
      base == [kind |-> "done", dp |-> ld.dp, client |-> llm_client,
               use_lc |-> use_langchain, inits |-> 0, calls |-> 0, loaded |-> need,
               cache |-> generated_roles, cluster_data |-> None,
               ret |-> Outcome(cid, force, TRUE, Err("DataProcessingException"),
                               FALSE, need, FALSE, None)]
  IN  IF CacheHit(cid, force)
      THEN [base EXCEPT !.dp = data_processor, !.loaded = FALSE,
                        !.ret = Outcome(cid, force, FALSE, Ref(generated_roles[cid]),
                                        TRUE, FALSE, FALSE, None)]
      ELSE IF ld.raised \/ pcl.raised THEN base
      ELSE IF ini.raised
      THEN [base EXCEPT !.client = ini.client, !.inits = ini.ran,
                        !.ret.value = Err("LLMException")]
      ELSE IF ini.use_lc /\ ini.client.langchain_model
      THEN [base EXCEPT !.kind = "suspend", !.client = ini.client, !.use_lc = ini.use_lc,
                        !.inits = ini.ran, !.calls = NetAttempts,
                        !.cluster_data = pcl.data]
      ELSE LET l == Land(cid, force, GenerateDirect(CreatePrompt(pcl.data), out),
                         pcl.data, need)
           IN  [base EXCEPT !.client = ini.client, !.use_lc = ini.use_lc,
                            !.inits = ini.ran, !.calls = NetAttempts,
                            !.cache = l.cache, !.ret = l.ret]

\* the part of a Begin result that every caller applies the same way
ApplyBegin(bg) ==
  /\ data_processor' = bg.dp
  /\ llm_client' = bg.client
  /\ use_langchain' = bg.use_lc
  /\ init_runs' = init_runs + bg.inits
  /\ net_calls' = net_calls + bg.calls
  /\ generated_roles' = bg.cache

Suspended(cid, force, bg) ==
  [cid |-> cid, force |-> force, cluster_data |-> bg.cluster_data, loaded |-> bg.loaded]

RemoveAt(q, k) == SubSeq(q, 1, k - 1) \o SubSeq(q, k + 1, Len(q))

\* gather schedules all children of a batch back to back on the loop's FIFO
\* ready queue, so each takes its first step before any later event is handled
Starting ==
  \E b \in 1..Len(batches) : \E k \in 1..Len(batches[b].children) :
    batches[b].children[k].pc = "created"

\* ----------------------------------------------------------------- actions
\* a caller awaits generate_single_role / generate_multiple_options
Generate(cid, force) ==
  /\ ~Starting
  /\ ops < MaxOps
  /\ ops' = ops + 1
  /\ forced_seen' = (forced_seen \/ force)
  /\ \E out \in NetOutcomes(flavor) :
       LET bg == Begin(cid, force, out)
       IN  /\ ApplyBegin(bg)
           /\ ret' = IF bg.kind = "done" THEN bg.ret ELSE ret
           /\ inflight' = IF bg.kind = "suspend"
                          THEN Append(inflight, Suspended(cid, force, bg))
                          ELSE inflight
  /\ UNCHANGED << flavor, files, clusters_data_processor, env, batches, batch_calls >>

\* chain.ainvoke of a suspended direct call completes
Complete(k) ==
  /\ ~Starting
  /\ \E out \in ChainOutcomes(flavor) :
       LET c == inflight[k]
           l == Land(c.cid, c.force, out, c.cluster_data, c.loaded)
       IN  /\ generated_roles' = l.cache
           /\ ret' = l.ret
  /\ inflight' = RemoveAt(inflight, k)
  /\ UNCHANGED << flavor, files, clusters_data_processor, env, use_langchain, llm_client, init_runs, net_calls,
                  data_processor, batches, ops, forced_seen, batch_calls >>

\* ------------------------------------------------------------------ batch
DefaultLimit(fl) == IF fl = "single" THEN DefaultLimitSingle ELSE DefaultLimitMulti
Limits(fl) == (1..MaxLimit) \cup {DefaultLimit(fl)}

RECURSIVE SeqsUpTo(_, _)
SeqsUpTo(S, n) ==
  IF n = 0 THEN {<<>>}
  ELSE LET shorter == SeqsUpTo(S, n - 1)
       IN  shorter \cup { Append(q, x) : q \in shorter, x \in S }

EmptyMapping == [c \in {} |-> None]

NewChild(cid) ==
  [cid |-> cid, pc |-> "created", cluster_data |-> None, loaded |-> FALSE, result |-> None]

ChildDone(ch) == ch.pc \in {"returned", "raised"}
InFlight(b) == { k \in 1..Len(batches[b].children) : batches[b].children[k].pc = "in_flight" }

\* what a batch invocation reports when it ends
BatchOutcome(ids, raised, value) ==
  [op |-> "batch", ids |-> ids, raised |-> raised, value |-> value]

\* a semaphore created one slot too wide
NewSemaphoreTooWide(concurrent_limit) == concurrent_limit + 1

\* `semaphore = asyncio.Semaphore(concurrent_limit)`: the free slots at creation
NewSemaphore(concurrent_limit) == concurrent_limit

\* generate_batch_roles / batch_generate_multiple up to `await gather(*tasks)`
BatchGenerate(ids, process_all, limit) ==
  /\ ~Starting
  /\ ops < MaxOps
  /\ ops' = ops + 1
  /\ batch_calls < MaxBatches
  /\ batch_calls' = batch_calls + 1
  /\ LET need == process_all /\ NeedsLoad(data_processor)
         ld == IF need THEN LoadDataFiles(data_processor, files)
               ELSE [raised |-> FALSE, dp |-> data_processor]
         target == IF process_all THEN GetAllClusterIds(ld.dp) ELSE ids
         raises == IF process_all THEN ld.raised ELSE ids = <<>>
         new == [ids |-> target, limit |-> limit, value |-> NewSemaphore(limit), waiters |-> <<>>,
                 children |-> [k \in 1..Len(target) |-> NewChild(target[k])]]
     IN  /\ data_processor' = ld.dp
         /\ IF raises
            THEN /\ ret' = BatchOutcome(ids, TRUE, None)
                 /\ batches' = batches
            ELSE IF target = <<>>
            THEN /\ ret' = BatchOutcome(target, FALSE, EmptyMapping)
                 /\ batches' = batches
            ELSE /\ ret' = ret
                 /\ batches' = Append(batches, new)
  /\ UNCHANGED << flavor, files, clusters_data_processor, env, use_langchain, llm_client, init_runs, net_calls,
                  generated_roles, inflight, forced_seen >>

\* a slot that is given back only by a child whose call returned
ReleaseUnlessRaised(bt, k, done) ==
  LET b1 == [bt EXCEPT !.children[k] = done]
  IN  IF done.pc = "raised" THEN b1
      ELSE IF b1.waiters # <<>>
      THEN [b1 EXCEPT !.children[Head(b1.waiters)].pc = "woken", !.waiters = Tail(@)]
      ELSE [b1 EXCEPT !.value = @ + 1]

\* __aexit__ of `async with semaphore` once child k has ended as `done`: the
\* slot goes to the longest-waiting child, else back to the counter
Release(bt, k, done) ==
  LET b1 == [bt EXCEPT !.children[k] = done]
  IN  IF b1.waiters # <<>>
      THEN [b1 EXCEPT !.children[Head(b1.waiters)].pc = "woken", !.waiters = Tail(@)]
      ELSE [b1 EXCEPT !.value = @ + 1]

ChildEnd(ch, r) ==
  [ch EXCEPT !.pc = IF r.raised THEN "raised" ELSE "returned",
             !.result = IF r.raised THEN None ELSE r.value, !.cluster_data = None]

\* child k of batch b, holding a slot, runs generate_*(cluster_id)
ChildRun(b, k, bt) ==
  \E out \in NetOutcomes(flavor) :
    \E ch \in {bt.children[k]} : \E bg \in {Begin(bt.children[k].cid, FALSE, out)} :
        /\ ApplyBegin(bg)
        /\ ret' = ret
        /\ batches' = [batches EXCEPT ![b] =
             IF bg.kind = "suspend"
             THEN [bt EXCEPT !.children[k] =
                     [ch EXCEPT !.pc = "in_flight", !.cluster_data = bg.cluster_data,
                                !.loaded = bg.loaded]]
             ELSE Release(bt, k, ChildEnd(ch, bg.ret))]

\* generate_with_limit: a scheduled child enters `async with semaphore`
ChildStart(b, k) ==
  /\ batches[b].children[k].pc = "created"
  /\ \A j \in 1..(k - 1) : batches[b].children[j].pc # "created"
  /\ IF batches[b].value > 0
     THEN ChildRun(b, k, [batches[b] EXCEPT !.value = @ - 1])
     ELSE /\ batches' = [batches EXCEPT ![b].children[k].pc = "queued",
                                        ![b].waiters = Append(@, k)]
          /\ UNCHANGED << use_langchain, llm_client, init_runs, net_calls, data_processor,
                          generated_roles, ret >>
  /\ UNCHANGED << flavor, files, clusters_data_processor, env, inflight, ops, forced_seen, batch_calls >>

\* generate_with_limit: a child that was handed a slot resumes
ChildResume(b, k) ==
  /\ ~Starting
  /\ batches[b].children[k].pc = "woken"
  /\ ChildRun(b, k, batches[b])
  /\ UNCHANGED << flavor, files, clusters_data_processor, env, inflight, ops, forced_seen, batch_calls >>

\* chain.ainvoke of an in-flight child completes
ChildComplete(b, k) ==
  /\ ~Starting
  /\ batches[b].children[k].pc = "in_flight"
  /\ \E out \in ChainOutcomes(flavor) :
       LET ch == batches[b].children[k]
           l == Land(ch.cid, FALSE, out, ch.cluster_data, ch.loaded)
       IN  /\ generated_roles' = l.cache
           /\ ret' = ret
           /\ batches' = [batches EXCEPT ![b] = Release(batches[b], k, ChildEnd(ch, l.ret))]
  /\ UNCHANGED << flavor, files, clusters_data_processor, env, use_langchain, llm_client, init_runs, net_calls,
                  data_processor, inflight, ops, forced_seen, batch_calls >>

\* the zip loop without its `if result:` test: failed ids are keys as well
GeneratedUnfiltered(children) ==
  LET all == 1..Len(children)
      Last(c) == CHOOSE k \in all : children[k].cid = c /\
                                    \A j \in all : children[j].cid = c => j <= k
  IN  [c \in { children[k].cid : k \in all } |-> children[Last(c)].result]

\* the zip loop over (cluster_ids, results): a later position overwrites
Generated(children) ==
  LET ok == { k \in 1..Len(children) : children[k].pc = "returned" }
      Last(c) == CHOOSE k \in ok : children[k].cid = c /\
                                   \A j \in ok : children[j].cid = c => j <= k
  IN  [c \in { children[k].cid : k \in ok } |-> children[Last(c)].result]

\* gather has every result: the batch coroutine builds its mapping and returns
BatchReturn(b) ==
  /\ ~Starting
  /\ \A k \in 1..Len(batches[b].children) : ChildDone(batches[b].children[k])
  /\ ret' = BatchOutcome(batches[b].ids, FALSE, Generated(batches[b].children))
  /\ batches' = RemoveAt(batches, b)
  /\ UNCHANGED << flavor, files, clusters_data_processor, env, use_langchain, llm_client, init_runs, net_calls,
                  data_processor, generated_roles, inflight, ops, forced_seen, batch_calls >>

\* ------------------------------------------------- review, select, export
Feedbacks == {NoneStr, "rename it"}
MaxOption == 3
OptionNumbers == 1..MaxOption
Formats == {"json", "csv", "xml"}

SyncOutcome(op, arg, raised, value) ==
  [op |-> op, cid |-> arg, raised |-> raised, value |-> value]

\* a review that records the verdict but not that a review took place
ReviewedUnmarked(fl, role, approved, feedback) ==
  [role EXCEPT !.approved = approved]

\* a review that approves whatever verdict is passed
ReviewedAlwaysApproved(fl, role, approved, feedback) ==
  [role EXCEPT !.reviewed = TRUE, !.approved = TRUE]

\* a review of a role set that withdraws the option chosen before it
ReviewedClearingSelection(fl, role, approved, feedback) ==
  LET r1 == [role EXCEPT !.reviewed = TRUE, !.approved = approved]
      r2 == IF fl = "multi" THEN [r1 EXCEPT !.selected_option = None] ELSE r1
  IN  IF fl = "multi" /\ feedback \notin {NoneStr, ""}
      THEN [r2 EXCEPT !.feedback = feedback] ELSE r2

\* the assignments of review_role / review_role_set to the cached record
Reviewed(fl, role, approved, feedback) ==
  LET r1 == [role EXCEPT !.reviewed = TRUE, !.approved = approved]
  IN  IF fl = "multi" /\ feedback \notin {NoneStr, ""}
      THEN [r1 EXCEPT !.feedback = feedback] ELSE r1

\* review_role (single) / review_role_set (multi)
Review(cid, approved, feedback) ==
  /\ ~Starting
  /\ ops < MaxOps
  /\ ops' = ops + 1
  /\ IF generated_roles[cid] = None
     THEN /\ ret' = SyncOutcome("review", cid, TRUE, None)
          /\ UNCHANGED generated_roles
     ELSE LET r2 == Reviewed(flavor, generated_roles[cid], approved, feedback)
          IN  /\ generated_roles' = [generated_roles EXCEPT ![cid] = r2]
              /\ ret' = SyncOutcome("review", cid, FALSE, Ref(r2))
  /\ UNCHANGED << flavor, files, clusters_data_processor, env, use_langchain, llm_client, init_runs, net_calls,
                  data_processor, inflight, batches, forced_seen, batch_calls >>

\* select_option (multi only)
SelectOption(cid, selected_option, feedback) ==
  /\ ~Starting
  /\ flavor = "multi"
  /\ ops < MaxOps
  /\ ops' = ops + 1
  /\ IF generated_roles[cid] = None
     THEN /\ ret' = SyncOutcome("select", cid, TRUE, None)
          /\ UNCHANGED generated_roles
     ELSE LET r1 == [generated_roles[cid] EXCEPT !.selected_option = Some(selected_option)]
              r2 == IF feedback \notin {NoneStr, ""}
                    THEN [r1 EXCEPT !.feedback = feedback] ELSE r1
          IN  /\ generated_roles' = [generated_roles EXCEPT ![cid] = r2]
              /\ ret' = SyncOutcome("select", cid, FALSE, Ref(r2))
  /\ UNCHANGED << flavor, files, clusters_data_processor, env, use_langchain, llm_client, init_runs, net_calls,
                  data_processor, inflight, batches, forced_seen, batch_calls >>

\* an export that leaves out the records nobody approved
CachedApprovedOnly ==
  { c \in ClusterIds : generated_roles[c] # None /\ generated_roles[c].approved }

\* the keys of self.generated_roles, whose values export_roles walks
Cached == { c \in ClusterIds : generated_roles[c] # None }

\* GeneratedRole.to_dict, and the CSV row of export_roles
ToDict(role) ==
  [cluster_id |-> role.cluster_id, role_name |-> role.role_name,
   description |-> role.description, rationale |-> role.rationale,
   risk_level |-> role.risk_level, entitlements |-> role.entitlements,
   user_summary |-> role.user_summary, reviewed |-> role.reviewed,
   approved |-> role.approved]
CsvRow(role) ==
  [cluster_id |-> role.cluster_id, role_name |-> role.role_name,
   description |-> role.description, rationale |-> role.rationale,
   risk_level |-> role.risk_level, entitlement_count |-> Len(role.entitlements),
   user_count |-> role.user_summary.total_users, approved |-> role.approved]

\* export_roles (single only); the written file is the returned value here
ExportRoles(output_format) ==
  /\ ~Starting
  /\ flavor = "single"
  /\ ops < MaxOps
  /\ ops' = ops + 1
  /\ ret' = IF output_format = "json"
            THEN SyncOutcome("export", output_format, FALSE,
                   [total_roles |-> Cardinality(Cached),
                    roles |-> [c \in Cached |-> ToDict(generated_roles[c])]])
            ELSE IF output_format = "csv"
            THEN SyncOutcome("export", output_format, FALSE,
                   [roles |-> [c \in Cached |-> CsvRow(generated_roles[c])]])
            ELSE SyncOutcome("export", output_format, TRUE, None)
  /\ UNCHANGED << flavor, files, clusters_data_processor, env, use_langchain, llm_client, init_runs, net_calls,
                  data_processor, generated_roles, inflight, batches, forced_seen, batch_calls >>

\* ----------------------------------------------------------- specification
Next ==
  \/ \E cid \in CallIds, force \in BOOLEAN : Generate(cid, force)
  \/ \E k \in 1..Len(inflight) : Complete(k)
  \/ \E ids \in SeqsUpTo(CallIds, MaxBatchLen), process_all \in BOOLEAN,
        limit \in Limits(flavor) : BatchGenerate(ids, process_all, limit)
  \/ \E b \in 1..Len(batches) : \E k \in 1..Len(batches[b].children) : ChildStart(b, k)
  \/ \E b \in 1..Len(batches) : \E k \in 1..Len(batches[b].children) : ChildResume(b, k)
  \/ \E b \in 1..Len(batches) : \E k \in 1..Len(batches[b].children) : ChildComplete(b, k)
  \/ \E b \in 1..Len(batches) : BatchReturn(b)
  \/ \E cid \in CallIds, approved \in BOOLEAN, feedback \in Feedbacks :
        Review(cid, approved, feedback)
  \/ \E cid \in CallIds, n \in OptionNumbers, feedback \in Feedbacks :
        SelectOption(cid, n, feedback)
  \/ \E fmt \in Formats : ExportRoles(fmt)

Spec == Init /\ [][Next]_vars

\* the event loop runs every task that is ready, and every request that was
\* sent is answered or fails
Scheduled ==
  \E b \in 1..Len(batches) :
    \/ \E k \in 1..Len(batches[b].children) : ChildStart(b, k) \/ ChildResume(b, k)
    \/ BatchReturn(b)
Answered ==
  \/ \E k \in 1..Len(inflight) : Complete(k)
  \/ \E b \in 1..Len(batches) : \E k \in 1..Len(batches[b].children) : ChildComplete(b, k)

\* ---------------------------------------------------- the batch by itself
\* batch invocations alone on an orchestrator, under a fair event loop
BatchNext ==
  \/ \E ids \in SeqsUpTo(CallIds, MaxBatchLen), process_all \in BOOLEAN,
        limit \in Limits(flavor) : BatchGenerate(ids, process_all, limit)
  \/ \E b \in 1..Len(batches) : \E k \in 1..Len(batches[b].children) : ChildStart(b, k)
  \/ \E b \in 1..Len(batches) : \E k \in 1..Len(batches[b].children) : ChildResume(b, k)
  \/ \E b \in 1..Len(batches) : \E k \in 1..Len(batches[b].children) : ChildComplete(b, k)
  \/ \E b \in 1..Len(batches) : BatchReturn(b)

BatchSpec == Init /\ [][BatchNext]_vars /\ WF_vars(Scheduled) /\ WF_vars(Answered)

\* ----------------------------------------------------------------- upload
\* file_mapping of save_upload: file type to the file of INPUT_DIR it writes
FileMapping ==
  [cluster_summary |-> "clusters", user_metadata |-> "users",
   entitlement_metadata |-> "catalog"]

RequiredCols ==
  [cluster_summary |-> {"Cluster_ID", "Core_Entitlements", "User_Count"},
   user_metadata |-> {"User_ID", "Cluster_ID", "Job_Title", "Department"},
   entitlement_metadata |-> {}]

\* the uploads the model tries: file type and content
Uploads ==
  { [file_type |-> "cluster_summary", content |-> ClusterTable2],
    [file_type |-> "cluster_summary", content |-> ClusterTableNoCol],
    [file_type |-> "user_metadata", content |-> UserTable2],
    [file_type |-> "entitlement_metadata", content |-> Catalog2],
    [file_type |-> "role_summary", content |-> ClusterTable2] }

\* save_upload: the file is written first and validated afterwards, so a file
\* that fails validation stays in INPUT_DIR
SaveUpload(fs, file_type, content) ==
  IF file_type \notin DOMAIN FileMapping
  THEN [raised |-> TRUE, files |-> fs]
  ELSE LET written == [fs EXCEPT ![FileMapping[file_type]] = content]
       IN  IF content = Corrupt
           THEN [raised |-> TRUE, files |-> written]
           ELSE IF file_type # "entitlement_metadata"
                   /\ ~(RequiredCols[file_type] \subseteq content.columns)
                THEN [raised |-> TRUE, files |-> written]
                ELSE [raised |-> FALSE, files |-> written]

\* POST /clusters/upload: save_upload, then load_data_files on the
\* DataProcessor of the clusters module
UploadDataFile(file_type, content) ==
  /\ ~Starting
  /\ ops < MaxOps
  /\ ops' = ops + 1
  /\ LET sv == SaveUpload(files, file_type, content)
          ld == LoadDataFiles(clusters_data_processor, sv.files)
     IN  /\ files' = sv.files
         /\ IF sv.raised
            THEN /\ UNCHANGED clusters_data_processor
                 /\ ret' = SyncOutcome("upload", file_type, TRUE, None)
            ELSE /\ clusters_data_processor' = ld.dp
                 /\ ret' = SyncOutcome("upload", file_type, ld.raised, None)
  /\ UNCHANGED << flavor, env, use_langchain, llm_client, init_runs, net_calls,
                  data_processor, generated_roles, inflight, batches, forced_seen,
                  batch_calls >>

UploadNext ==
  \/ \E u \in Uploads : UploadDataFile(u.file_type, u.content)
  \/ \E cid \in CallIds, force \in BOOLEAN : Generate(cid, force)
  \/ \E k \in 1..Len(inflight) : Complete(k)

UploadSpec == Init /\ [][UploadNext]_vars

\* ------------------------------------------------- the gateway by itself
\* generate_role called on a constructed AzureOpenAIClient, with every kind of
\* response body and prompts shorter and longer than the prefix that the
\* fallback record takes.
ContentLens == {1, DescriptionMax - 1, DescriptionMax, DescriptionMax + 1}

AllBodies(fl) ==
  Bodies(fl)
  \cup { Body(Text("object", 2), JObject(EmptyObject), JObject(EmptyObject)),
         Body(Text("array of one object", 9), JArray, JObject(EmptyObject)),
         Body(Text("", 0), JsonError, NoMatch),
         Body(None, JsonError, NoMatch) }
  \cup { Body(Text("fenced", n), JsonError, JObject(Good(fl))) : n \in ContentLens }
  \cup { Body(Text("braces", n), JsonError, JsonError) : n \in ContentLens }
  \cup { Body(Text("prose", n), JsonError, NoMatch) : n \in ContentLens }

AllNetOutcomes(fl) == {NetFailure} \cup { [net |-> "ok", body |-> b] : b \in AllBodies(fl) }

PromptLens == {0, PromptPrefixLen - 1, PromptPrefixLen, Len(PromptHead) + 1}
Prompts == { Prefix(CreatePrompt([cluster_id |-> "C1"]), n) : n \in PromptLens }

\* _generate_with_langchain: the request, then the parser on what came back
GenerateWithLangchain(outcome, parsed) ==
  IF outcome = NetFailure THEN Raised ELSE parsed

\* generate_role: ensure_initialized, the transport chosen by USE_LANGCHAIN and
\* langchain_model, and any exception of the transport wrapped as LLMException
GenerateRole(cl, use_lc, prompt, outcome, parsed) ==
  LET ini == EnsureInitialized(cl, use_lc)
      lc == ini.use_lc /\ ini.client.langchain_model
      res == IF lc THEN GenerateWithLangchain(outcome, parsed)
             ELSE GenerateDirect(prompt, outcome)
  IN  [client |-> ini.client, use_lc |-> ini.use_lc, inits |-> ini.ran,
       calls |-> IF ini.raised THEN 0 ELSE NetAttempts,
       transport |-> IF ini.raised THEN "none" ELSE IF lc THEN "langchain" ELSE "direct",
       raised |-> ini.raised \/ res.raised,
       value |-> IF ini.raised \/ res.raised THEN Err("LLMException") ELSE res.value]

\* what a generate_role call reports when it ends
GatewayOutcome(prompt, outcome, g) ==
  [op |-> "generate_role", prompt |-> prompt,
   net |-> IF g.transport = "none" THEN None ELSE outcome,
   transport |-> g.transport, raised |-> g.raised, value |-> g.value]

GatewayInit ==
  /\ flavor \in {"single", "multi"}
  /\ files = FullFiles
  /\ \E g \in {Direct, LangChain, NoLangChain, BadCreds} :
       /\ env = [creds_ok |-> g.creds_ok, langchain_ok |-> g.langchain_ok]
       /\ use_langchain = g.use_langchain
  /\ llm_client = NewClient
  /\ init_runs = 0
  /\ net_calls = 0
  /\ data_processor = NewDataProcessor
  /\ clusters_data_processor = NewDataProcessor
  /\ generated_roles = [c \in ClusterIds |-> None]
  /\ inflight = <<>>
  /\ batches = <<>>
  /\ ops = 0
  /\ batch_calls = 0
  /\ forced_seen = FALSE
  /\ ret = None

GatewayGenerate(prompt, outcome, parsed) ==
  /\ ops < MaxOps
  /\ ops' = ops + 1
  /\ LET g == GenerateRole(llm_client, use_langchain, prompt, outcome, parsed)
     IN  /\ llm_client' = g.client
         /\ use_langchain' = g.use_lc
         /\ init_runs' = init_runs + g.inits
         /\ net_calls' = net_calls + g.calls
         /\ ret' = GatewayOutcome(prompt, outcome, g)
  /\ UNCHANGED << flavor, files, clusters_data_processor, env, data_processor, generated_roles, inflight, batches,
                  batch_calls, forced_seen >>

GatewayNext ==
  \E prompt \in Prompts, outcome \in AllNetOutcomes(flavor), parsed \in ChainOutcomes(flavor) :
    GatewayGenerate(prompt, outcome, parsed)

GatewaySpec == GatewayInit /\ [][GatewayNext]_vars

\* ------------------------------------------------------------------ claims
\* a batch child runs generate_*(cluster_id) in this step
ChildCalls(b, k) == (ChildStart(b, k) /\ batches[b].value > 0) \/ ChildResume(b, k)

\* C1: a generate(id, force_regenerate=False) on an id that is in the cache
\* returns the cached record object itself, flagged as a hit, without loading,
\* without initialising or calling the gateway and without suspending, and the
\* cache, the consolidator and the gateway client are as before; a batch child
\* that finds its id cached ends the same way.
CacheHitIdempotent ==
  [][ /\ \A cid \in CallIds :
           (generated_roles[cid] # None /\ Generate(cid, FALSE)) =>
             /\ ret' = Outcome(cid, FALSE, FALSE, Ref(generated_roles[cid]),
                               TRUE, FALSE, FALSE, None)
             /\ UNCHANGED << generated_roles, data_processor, llm_client, use_langchain,
                             init_runs, inflight >>
      /\ \A b \in 1..Len(batches) : \A k \in 1..Len(batches[b].children) :
           (generated_roles[batches[b].children[k].cid] # None /\ ChildCalls(b, k)) =>
             /\ batches'[b].children[k].pc = "returned"
             /\ batches'[b].children[k].result =
                  Ref(generated_roles[batches[b].children[k].cid])
             /\ UNCHANGED << generated_roles, data_processor, llm_client, use_langchain,
                             init_runs, inflight >>
    ]_vars

\* C1 witness: a direct call has just been answered from the cache
CacheHitReturned ==
  /\ ret # None
  /\ ret.op = "generate"
  /\ ret.hit
  /\ generated_roles[ret.cid] # None
  /\ ret.value = Ref(generated_roles[ret.cid])

\* C2: as long as no invocation has passed force_regenerate=True, no cluster
\* id has had more than one record built and stored for it: the cached record
\* of every id is the first one created for that id.
AtMostOnceGeneration ==
  ~forced_seen => \A c \in ClusterIds :
                    generated_roles[c] # None => generated_roles[c].oid = 1

\* a direct generate_* call for cid ends in this step without suspending
GenerateEnds(cid, force) == Generate(cid, force) /\ inflight' = inflight

\* a direct generate_* call for cid suspends on the gateway in this step
GenerateSuspends(cid, force) ==
  /\ Generate(cid, force)
  /\ Len(inflight') = Len(inflight) + 1
  /\ inflight'[Len(inflight')].cid = cid
  /\ inflight'[Len(inflight')].force = force

\* C3: a generate(id, force_regenerate=True) on a cached id is never answered
\* from the cache: it reaches the gateway (the call is started, or made and
\* ended, in that step), and when a forced call ends without raising, the
\* cache entry of id is a new record object, the one the call returns, and no
\* other entry has changed.
ForcedRegenerates ==
  [][ /\ \A cid \in CallIds :
           (generated_roles[cid] # None /\ Generate(cid, TRUE)) =>
             \/ GenerateSuspends(cid, TRUE) /\ generated_roles' = generated_roles
             \/ /\ GenerateEnds(cid, TRUE)
                /\ ret'.called /\ ~ret'.hit
                /\ ~ret'.raised =>
                     /\ generated_roles'[cid].oid = generated_roles[cid].oid + 1
                     /\ ret'.value = Ref(generated_roles'[cid])
                     /\ \A c \in ClusterIds \ {cid} :
                          generated_roles'[c] = generated_roles[c]
      /\ \A k \in 1..Len(inflight) :
           (inflight[k].force /\ Complete(k) /\ ~ret'.raised) =>
             /\ generated_roles'[inflight[k].cid].oid =
                  NextOid(generated_roles, inflight[k].cid)
             /\ ret'.value = Ref(generated_roles'[inflight[k].cid])
             /\ \A c \in ClusterIds \ {inflight[k].cid} :
                  generated_roles'[c] = generated_roles[c]
    ]_vars

\* C3 witness: a forced call has replaced a cached record by a new one
ForcedReplaced ==
  /\ ret # None
  /\ ret.op = "generate"
  /\ ret.force /\ ~ret.raised /\ ret.called
  /\ ret.replaced # None
  /\ generated_roles[ret.cid].oid = ret.replaced.oid + 1
  /\ ret.value = Ref(generated_roles[ret.cid])

\* the generate_* call of child k of batch b runs to its end in this step
ChildEnds(b, k) == ChildCalls(b, k) \/ ChildComplete(b, k)

\* C4: a generate_* call that raises leaves every cache entry as it was: a
\* direct call that ends raising in the step it was made, a suspended call
\* whose gateway call ends in a failure, and the same two for the generate_*
\* call of a batch child (whose exception its wrapper then swallows).
FailedGenerationKeepsCache ==
  [][ /\ \A cid \in CallIds, force \in BOOLEAN :
           (ret' # None /\ ret'.raised /\ GenerateEnds(cid, force)) =>
             generated_roles' = generated_roles
      /\ \A k \in 1..Len(inflight) :
           (ret' # None /\ ret'.raised /\ Complete(k)) =>
             generated_roles' = generated_roles
      /\ \A b \in 1..Len(batches) : \A k \in 1..Len(batches[b].children) :
           (Len(batches') = Len(batches) /\ batches'[b].children[k].pc = "raised" /\
            ChildEnds(b, k)) =>
             generated_roles' = generated_roles
    ]_vars

\* C4 witness: a forced call on a cached id has raised after calling the gateway
ForcedCallRaised ==
  /\ ret # None
  /\ ret.op = "generate"
  /\ ret.force /\ ret.raised /\ ret.called
  /\ generated_roles[ret.cid] # None

\* children of a batch whose generate_* call raised, and ids of the others
Failed(bt) == { k \in 1..Len(bt.children) : bt.children[k].pc = "raised" }
Succeeded(bt) == { bt.children[k].cid : k \in (1..Len(bt.children)) \ Failed(bt) }
Distinct(ids) == \A i, j \in 1..Len(ids) : ids[i] = ids[j] => i = j

\* a batch call over an explicit list gets past its argument check in this step
BatchStarts(ids, limit) ==
  /\ BatchGenerate(ids, FALSE, limit)
  /\ Len(batches') = Len(batches) + 1
  /\ batches'[Len(batches')].ids = ids
  /\ ret' = ret

\* C5 as stated: a batch call over any list of N ids never raises, and the
\* mapping it returns has exactly N - |F| entries, keyed by the requested ids
\* outside F, where F are the ids whose generation failed.
BatchPartialFailure ==
  [][ /\ \A ids \in SeqsUpTo(CallIds, MaxBatchLen), limit \in Limits(flavor) :
           BatchGenerate(ids, FALSE, limit) => BatchStarts(ids, limit)
      /\ \A b \in 1..Len(batches) :
           BatchReturn(b) =>
             /\ ~ret'.raised
             /\ Cardinality(DOMAIN ret'.value) =
                  Len(batches[b].ids) - Cardinality(Failed(batches[b]))
             /\ DOMAIN ret'.value = Succeeded(batches[b])
    ]_vars

\* C5 amended: a batch call over a non-empty list with concurrent_limit >= 1
\* does not raise: it gets to gather, and when it returns, the keys of its
\* mapping are exactly the requested ids with an attempt that did not fail,
\* each mapped to the record the last such attempt returned; that is N - |F|
\* entries when the N ids are pairwise distinct. Over an empty list the call
\* raises at once.
BatchPartialFailureNonEmpty ==
  [][ /\ \A ids \in SeqsUpTo(CallIds, MaxBatchLen) \ {<<>>}, limit \in Limits(flavor) :
           BatchGenerate(ids, FALSE, limit) => BatchStarts(ids, limit)
      /\ \A limit \in Limits(flavor) :
           BatchGenerate(<<>>, FALSE, limit) =>
             ret' = BatchOutcome(<<>>, TRUE, None) /\ batches' = batches
      /\ \A b \in 1..Len(batches) :
           BatchReturn(b) =>
             /\ ~ret'.raised
             /\ DOMAIN ret'.value = Succeeded(batches[b])
             /\ \A c \in DOMAIN ret'.value :
                  \E k \in (1..Len(batches[b].children)) \ Failed(batches[b]) :
                    /\ batches[b].children[k].cid = c
                    /\ \A j \in (k + 1)..Len(batches[b].children) :
                         batches[b].children[j].cid = c => j \in Failed(batches[b])
                    /\ ret'.value[c] = batches[b].children[k].result
                    /\ ret'.value[c] # None
             /\ Distinct(batches[b].ids) =>
                  Cardinality(DOMAIN ret'.value) =
                    Len(batches[b].ids) - Cardinality(Failed(batches[b]))
    ]_vars

\* C5 witness: a batch over two distinct ids has returned one entry, the
\* generation of the other id having failed
BatchReturnedPartial ==
  /\ ret # None
  /\ ret.op = "batch"
  /\ ~ret.raised
  /\ Len(ret.ids) = 2 /\ ret.ids[1] # ret.ids[2]
  /\ Cardinality(DOMAIN ret.value) = 1

\* children of batch b that hold a slot of its semaphore
Holding(b) ==
  { k \in 1..Len(batches[b].children) : batches[b].children[k].pc \in {"in_flight", "woken"} }

\* C6: in every state, for every running batch, the gateway calls of its
\* children that have started and not completed number at most its
\* concurrent_limit; the semaphore's free slots plus the children holding one
\* always add up to the limit, so a slot comes back when a call succeeds and
\* when it fails; and no child waits while a slot is free.
ConcurrencyBound ==
  \A b \in 1..Len(batches) :
    /\ Cardinality(InFlight(b)) <= batches[b].limit
    /\ batches[b].value >= 0
    /\ batches[b].value + Cardinality(Holding(b)) = batches[b].limit
    /\ batches[b].value > 0 => batches[b].waiters = <<>>

\* C6 witness: a batch over more ids than its limit, whose first call failed at
\* the gateway while the second child waited, and whose second call is now in
\* flight on the slot the failure gave back
SlotReusedAfterFailure ==
  \E b \in 1..Len(batches) :
    /\ Len(batches[b].children) > batches[b].limit
    /\ batches[b].children[1].cid = "C1"
    /\ batches[b].children[1].pc = "raised"
    /\ batches[b].children[2].pc = "in_flight"
    /\ Cardinality(InFlight(b)) = batches[b].limit

\* C7: a review of an id with no cached record raises and leaves the cache as
\* it was; a review of a cached id does not raise, leaves that same record
\* object in the cache with reviewed = TRUE and approved as passed, returns a
\* reference to it, and changes no other entry.
ReviewRequiresRecord ==
  [][ \A cid \in CallIds, approved \in BOOLEAN, feedback \in Feedbacks :
        Review(cid, approved, feedback) =>
          IF generated_roles[cid] = None
          THEN ret'.raised /\ generated_roles' = generated_roles
          ELSE /\ ~ret'.raised
               /\ generated_roles'[cid].reviewed
               /\ generated_roles'[cid].approved = approved
               /\ generated_roles'[cid].oid = generated_roles[cid].oid
               /\ ret'.value = Ref(generated_roles'[cid])
               /\ \A c \in ClusterIds \ {cid} : generated_roles'[c] = generated_roles[c]
    ]_vars

\* C7 witness: a review that rejected a generated record has returned it
ReviewedAndRejected ==
  /\ ret # None
  /\ ret.op = "review"
  /\ ~ret.raised
  /\ generated_roles[ret.cid] # None
  /\ ret.value = Ref(generated_roles[ret.cid])
  /\ generated_roles[ret.cid].reviewed
  /\ ~generated_roles[ret.cid].approved

\* C8: in every state, a cached record that is not reviewed is not approved.
ApprovedOnlyIfReviewed ==
  \A c \in ClusterIds :
    generated_roles[c] # None =>
      (~generated_roles[c].reviewed => ~generated_roles[c].approved)

\* C8 witness: the last call to end was a successful review of an id whose
\* cached record has since been replaced by a batch child's late store, and the
\* record now cached is neither reviewed nor approved
ReviewLostToLateStore ==
  /\ ret # None
  /\ ret.op = "review"
  /\ ~ret.raised
  /\ generated_roles[ret.cid].oid > ret.value.oid
  /\ ~generated_roles[ret.cid].reviewed
  /\ ~generated_roles[ret.cid].approved

\* C9: in every state of the multi-option orchestrator, a cached record whose
\* selected_option is set has an option of that number among its role_options.
SelectedOptionExists ==
  flavor = "multi" =>
    \A c \in ClusterIds :
      (generated_roles[c] # None /\ generated_roles[c].selected_option # None) =>
        \E i \in 1..Len(generated_roles[c].role_options) :
          generated_roles[c].role_options[i].option_number =
            generated_roles[c].selected_option.some

\* a forced generate_* call for cid ends in this step with a stored record
ForcedStore(cid) ==
  /\ ret' # None /\ ~ret'.raised
  /\ \/ GenerateEnds(cid, TRUE)
     \/ \E k \in 1..Len(inflight) :
          inflight[k].cid = cid /\ inflight[k].force /\ Complete(k)

\* C10 as stated: when the cached record of id is reviewed, with approved = a,
\* the record cached for id after a successful forced regeneration is still
\* reviewed, with approved = a.
ReviewFlagsPersist ==
  [][ \A cid \in CallIds :
        (generated_roles[cid] # None /\ generated_roles[cid].reviewed /\
         ForcedStore(cid)) =>
          /\ generated_roles'[cid].reviewed
          /\ generated_roles'[cid].approved = generated_roles[cid].approved
    ]_vars

\* C10 amended: whatever the review flags of the cached record of id, the
\* record cached for id after a successful forced regeneration is a new one
\* with reviewed = FALSE and approved = FALSE.
ReviewFlagsReset ==
  [][ \A cid \in CallIds :
        (generated_roles[cid] # None /\ ForcedStore(cid)) =>
          /\ generated_roles'[cid].oid # generated_roles[cid].oid
          /\ ~generated_roles'[cid].reviewed
          /\ ~generated_roles'[cid].approved
    ]_vars

\* C10 witness: a forced call has replaced a reviewed and approved record, and
\* the record now cached is not reviewed
ApprovalDropped ==
  /\ ret # None
  /\ ret.op = "generate"
  /\ ret.force /\ ~ret.raised
  /\ ret.replaced # None
  /\ ret.replaced.reviewed /\ ret.replaced.approved
  /\ ret.value = Ref(generated_roles[ret.cid])
  /\ ~generated_roles[ret.cid].reviewed
  /\ ~generated_roles[ret.cid].approved

\* C11: a cache entry is never deleted. Whatever step is taken (a generate call
\* that starts, hits, stores or fails, forced or not, a batch and its children,
\* a review, an option selection, an export), every cluster id that is a key
\* of the cache before the step is still a key after it.
CacheKeysNeverRemoved ==
  [][\A c \in ClusterIds : generated_roles[c] # None => generated_roles'[c] # None]_vars

\* an entry that was replaced in place is still cached after a later review of
\* an id that has no record failed
KeyKeptAcrossFailedReview ==
  /\ \E c \in ClusterIds : generated_roles[c] # None /\ generated_roles[c].oid >= 2
  /\ ret # None /\ ret.op = "review" /\ ret.raised

\* C12: export is a read-only snapshot. export_roles("json") and
\* export_roles("csv") do not raise and write exactly one entry per cached
\* record, whether or not the record was reviewed or approved (the JSON
\* total_roles is the number of cached records); an unsupported format raises;
\* in every case the cache, its key set and every cached record are as before,
\* so that the export can be repeated with the same result.
ExportIsReadOnlySnapshot ==
  [][\A fmt \in Formats :
       ExportRoles(fmt) =>
         /\ generated_roles' = generated_roles
         /\ data_processor' = data_processor /\ llm_client' = llm_client
         /\ ret'.op = "export"
         /\ ret'.raised = (fmt \notin {"json", "csv"})
         /\ ~ret'.raised =>
              /\ DOMAIN ret'.value.roles = { c \in ClusterIds : generated_roles[c] # None }
              /\ \A c \in DOMAIN ret'.value.roles :
                   /\ ret'.value.roles[c].cluster_id = c
                   /\ ret'.value.roles[c].role_name = generated_roles[c].role_name
                   /\ ret'.value.roles[c].approved = generated_roles[c].approved
         /\ fmt = "json" =>
              ret'.value.total_roles =
                Cardinality({ c \in ClusterIds : generated_roles[c] # None })]_vars

\* an export wrote the entry of a record that was reviewed and rejected
ExportedRejectedRecord ==
  /\ ret # None /\ ret.op = "export" /\ ~ret.raised
  /\ \E c \in DOMAIN ret.value.roles :
       /\ generated_roles[c].reviewed /\ ~generated_roles[c].approved
       /\ ~ret.value.roles[c].approved

\* C13: every successful network call yields a structurally valid record. For
\* every kind of response body and over either transport, a generate_role call
\* whose request to the model endpoint did not fail returns a mapping and
\* raises nothing: no parse error reaches the caller.
GatewayAlwaysReturnsMapping ==
  (ret # None /\ ret.op = "generate_role" /\ ret.transport # "none"
     /\ ret.net # NetFailure) =>
    (~ret.raised /\ ret.value.type = "object")

\* C14: the three tiers of the JSON-mode parse. A generate_role call over the
\* direct transport whose response carries a text returns what parsing the whole
\* text gave; only if that failed, what parsing the span from the first '{' to
\* the last '}' gave; only if there is no such span or it does not parse, the
\* fallback record: role_name "Role_" followed by the first 20 characters of
\* the prompt (all of a shorter prompt), description the text cut to 200
\* characters, the fixed rationale and risk_level MEDIUM.
ThreeTierParse ==
  (ret # None /\ ret.op = "generate_role" /\ ret.transport = "direct"
     /\ ret.net # NetFailure /\ ret.net.body.content # None) =>
    LET body == ret.net.body
        plen == IF Len(ret.prompt) < PromptPrefixLen THEN Len(ret.prompt)
                ELSE PromptPrefixLen
    IN  /\ ~ret.raised
        /\ body.whole # JsonError => ret.value = body.whole
        /\ (body.whole = JsonError /\ body.span \notin {NoMatch, JsonError}) =>
             ret.value = body.span
        /\ (body.whole = JsonError /\ body.span \in {NoMatch, JsonError}) =>
             /\ ret.value.type = "object"
             /\ DOMAIN ret.value.map = {"role_name", "description", "rationale", "risk_level"}
             /\ Len(ret.value.map.role_name) = 1 + plen
             /\ ret.value.map.role_name[1] = "Role_"
             /\ \A i \in 1..plen : ret.value.map.role_name[1 + i] = ret.prompt[i]
             /\ ret.value.map.description.chars = body.content.chars
             /\ ret.value.map.description.len =
                  (IF body.content.len > DescriptionMax THEN DescriptionMax
                   ELSE body.content.len)
             /\ ret.value.map.rationale = "Generated from LLM response"
             /\ ret.value.map.risk_level = "MEDIUM"

\* the fallback record was built from a prompt longer than 20 characters and a
\* prose body longer than 200
FallbackFromLongProse ==
  /\ ret # None /\ ret.op = "generate_role" /\ ret.transport = "direct" /\ ~ret.raised
  /\ ret.net # NetFailure /\ ret.net.body.content # None
  /\ ret.net.body.whole = JsonError /\ ret.net.body.span = NoMatch
  /\ ret.net.body.content.len > DescriptionMax
  /\ Len(ret.prompt) > PromptPrefixLen
  /\ ret.value.map.description.len = DescriptionMax

\* C15: transport failures are surfaced, not retried. A generate_* call that
\* reaches the gateway sends exactly one request: one in the step that makes the
\* call, none when a suspended call is completed, and a completed call is never
\* suspended again. When the request fails, the call raises LLMException to its
\* caller and the cache is as before. Only in a batch is the failure demoted:
\* the child ends with no result, nothing is raised to the caller of the batch,
\* the batch goes on and returns a mapping that has no key for the id unless
\* another child for the same id returned a record.
TransportFailureSurfaced ==
  [][ /\ \A cid \in CallIds, force \in BOOLEAN :
           \* the requests sent by a call that ends in the step it was made
           /\ (/\ ops' = ops + 1 /\ inflight' = inflight
               /\ ret' # None /\ ret'.op = "generate"
               /\ ret'.cid = cid /\ ret'.force = force
               /\ GenerateEnds(cid, force)) =>
                net_calls' = net_calls + (IF ret'.called THEN NetAttempts ELSE 0)
           \* the requests sent by a call that suspends
           /\ (Len(inflight') = Len(inflight) + 1 /\ GenerateSuspends(cid, force)) =>
                net_calls' = net_calls + NetAttempts
           \* the request of a call over the direct transport fails
           /\ (/\ ops' = ops + 1 /\ inflight' = inflight
               /\ ret' # None /\ ret'.op = "generate"
               /\ ret'.cid = cid /\ ret'.force = force /\ ret'.called
               /\ ~CacheHit(cid, force)
               /\ Begin(cid, force, NetFailure).kind = "done"
               /\ ret' = Begin(cid, force, NetFailure).ret
               /\ Generate(cid, force)) =>
                /\ ret'.raised /\ ret'.value = Err("LLMException")
                /\ generated_roles' = generated_roles
      /\ \A k \in 1..Len(inflight) :
           \* a suspended call is completed once, with no further request
           /\ ((net_calls' # net_calls \/ Len(inflight') # Len(inflight) - 1)
                 /\ Complete(k)) => FALSE
           \* the request of a suspended call fails
           /\ (/\ ret' = Land(inflight[k].cid, inflight[k].force, Raised,
                              inflight[k].cluster_data, inflight[k].loaded).ret
               /\ Complete(k)) =>
                /\ ret'.raised /\ ret'.value = Err("LLMException")
                /\ generated_roles' = generated_roles
      /\ \A b \in 1..Len(batches) :
           /\ \A k \in 1..Len(batches[b].children) :
                \* the generate_* call of a child raises
                /\ (Len(batches') # Len(batches) /\ ChildEnds(b, k)) => FALSE
                /\ (/\ Len(batches') = Len(batches)
                    /\ batches[b].children[k].pc # "raised"
                    /\ batches'[b].children[k].pc = "raised"
                    /\ ChildEnds(b, k)) =>
                     /\ batches'[b].children[k].result = None
                     /\ ret' = ret
                     /\ generated_roles' = generated_roles
           /\ (Len(batches') = Len(batches) - 1 /\ BatchReturn(b)) =>
                /\ ~ret'.raised
                /\ \A k \in 1..Len(batches[b].children) :
                     (batches[b].children[k].pc = "raised"
                        /\ \A j \in 1..Len(batches[b].children) :
                             batches[b].children[j].cid = batches[b].children[k].cid
                               => batches[b].children[j].pc = "raised") =>
                       batches[b].children[k].cid \notin DOMAIN ret'.value ]_vars

\* a generate call sent its request, the request failed and the call raised
\* LLMException, after an earlier call had stored a record
TransportFailureRaised ==
  /\ ret # None /\ ret.op = "generate" /\ ret.raised /\ ret.called
  /\ ret.value = Err("LLMException")
  /\ net_calls >= 2
  /\ \E c \in ClusterIds : generated_roles[c] # None

\* the gateway client exists and its initialisation has succeeded
Initialized == llm_client # None /\ llm_client.initialized

\* C16 as claimed: constructing the orchestrator and its gateway runs no
\* initialisation, and over the lifetime of the gateway instance the
\* initialisation routine is executed at most once, however many generate
\* calls follow and whether or not the first attempt succeeded.
InitAtMostOnce ==
  /\ llm_client = None => init_runs = 0
  /\ init_runs <= 1

\* C16, amended: constructing the orchestrator and its gateway runs no
\* initialisation; the routine is run only by a generate call that reaches the
\* gateway, at most once per call; once it has succeeded the client stays
\* initialised and the routine is never run again; while it has not succeeded,
\* every generate call that reaches the gateway runs it again, and raises
\* LLMException without sending a request when it fails again.
InitOncePerCallUntilSuccess ==
  [][ /\ llm_client = None => init_runs = 0
      /\ init_runs' \in {init_runs, init_runs + 1}
      /\ Initialized => (Initialized' /\ init_runs' = init_runs)
      /\ init_runs' # init_runs => \/ \E cid \in CallIds, force \in BOOLEAN : Generate(cid, force)
                                   \/ \E b \in 1..Len(batches) :
                                        \E k \in 1..Len(batches[b].children) : ChildCalls(b, k)
      /\ \A cid \in CallIds, force \in BOOLEAN :
           (ops' = ops + 1 /\ ~Initialized /\ Generate(cid, force)) =>
             LET reached == \/ Len(inflight') > Len(inflight)
                            \/ ret'.called
                            \/ ret'.raised /\ ret'.value = Err("LLMException")
             IN  /\ init_runs' = init_runs + (IF reached THEN 1 ELSE 0)
                 /\ (reached /\ ~Initialized') =>
                      /\ ret'.raised /\ ret'.value = Err("LLMException")
                      /\ ~ret'.called /\ net_calls' = net_calls ]_vars

\* the initialisation failed, was run again by a later call and failed again
InitRunAgainAfterFailure ==
  /\ init_runs >= 2
  /\ llm_client # None /\ ~llm_client.initialized
  /\ ret # None /\ ret.op = "generate" /\ ret.raised /\ ret.value = Err("LLMException")

\* cid is the Cluster_ID of no row of the loaded cluster table
AbsentFromTable(dp, cid) ==
  /\ dp.cluster_summary # None
  /\ "Cluster_ID" \in dp.cluster_summary.columns
  /\ \A i \in 1..Len(dp.cluster_summary.rows) : dp.cluster_summary.rows[i].Cluster_ID # cid

\* C17: unknown cluster id. process_cluster raises for an id that is absent
\* from the loaded cluster table, and so does it right after the lazy load of
\* a call; a generate_* call for such an id raises DataProcessingException to
\* its caller with no gateway client created, no initialisation run and no
\* request sent, and the cache is unchanged.
UnknownClusterRaisesEarly ==
  [][ /\ \A cid \in ClusterIds :
           AbsentFromTable(data_processor, cid) => ProcessCluster(data_processor, cid).raised
      /\ \A cid \in CallIds, force \in BOOLEAN :
           (/\ ops' = ops + 1
            /\ AbsentFromTable(data_processor', cid)
            /\ Generate(cid, force)) =>
             /\ ret'.op = "generate" /\ ret'.cid = cid
             /\ ret'.raised /\ ret'.value = Err("DataProcessingException")
             /\ ~ret'.called /\ ~ret'.hit
             /\ llm_client' = llm_client
             /\ init_runs' = init_runs /\ net_calls' = net_calls
             /\ generated_roles' = generated_roles
             /\ inflight' = inflight ]_vars

\* a call for an id that the loaded table does not have raised, while the
\* gateway client had been initialised by an earlier call and a record is cached
UnknownClusterRaised ==
  /\ ret # None /\ ret.op = "generate" /\ ret.raised
  /\ ret.value = Err("DataProcessingException")
  /\ AbsentFromTable(data_processor, ret.cid)
  /\ Initialized
  /\ \E c \in ClusterIds : generated_roles[c] # None

\* the three tables are loaded and have the columns process_cluster reads
TablesLoaded(dp) ==
  /\ dp.cluster_summary # None
  /\ {"Cluster_ID", "Core_Entitlements"} \subseteq dp.cluster_summary.columns
  /\ dp.user_metadata # None
  /\ {"Cluster_ID", "Job_Title", "Department"} \subseteq dp.user_metadata.columns

\* the positions of a row's listed ids that are keys of the catalog
Known(toks, meta) == { i \in 1..Len(toks) : toks[i].id \in DOMAIN meta }

\* the snapshots that exist in a state: those held by suspended calls
Snapshots ==
  { inflight[k].cluster_data : k \in 1..Len(inflight) }
  \cup UNION { { batches[b].children[k].cluster_data :
                   k \in { j \in 1..Len(batches[b].children) :
                             batches[b].children[j].pc = "in_flight" } } :
               b \in 1..Len(batches) }

\* C18: lenient join and the snapshot invariant. With the tables loaded,
\* process_cluster succeeds for every row of the cluster table, also for a row
\* that lists ids the catalog does not have; the entitlements of the snapshot
\* are the listed ids, blanks trimmed, that are keys of the loaded catalog, in
\* the order of the listing, each with the catalog's name; and
\* entitlement_count is the length of that sequence, in the snapshot just
\* built and in every snapshot a suspended call holds.
LenientJoin ==
  /\ TablesLoaded(data_processor) =>
       \A r \in 1..Len(data_processor.cluster_summary.rows) :
         LET row == data_processor.cluster_summary.rows[r]
             meta == data_processor.entitlement_metadata
             toks == row.Core_Entitlements
             kept == Known(toks, meta)
             pc == ProcessCluster(data_processor, row.Cluster_ID)
         IN  /\ ~pc.raised
             /\ pc.data.cluster_id = row.Cluster_ID
             /\ Len(pc.data.core_entitlements) = Cardinality(kept)
             /\ \A i \in kept :
                  LET j == Cardinality({ m \in kept : m <= i })
                  IN  /\ pc.data.core_entitlements[j].id = toks[i].id
                      /\ pc.data.core_entitlements[j].name = meta[toks[i].id].name
             /\ pc.data.entitlement_count = Len(pc.data.core_entitlements)
  /\ \A sn \in Snapshots : sn.entitlement_count = Len(sn.core_entitlements)
  /\ \A c \in ClusterIds :
       (generated_roles[c] # None /\ TablesLoaded(data_processor)) =>
         generated_roles[c].entitlements =
           ProcessCluster(data_processor, c).data.core_entitlements

\* a record was stored for the cluster whose row lists an id the catalog does
\* not have, and a suspended call holds the snapshot of the cluster whose row
\* lists an id with blanks around it
JoinedLeniently ==
  /\ generated_roles["C2"] # None
  /\ Len(generated_roles["C2"].entitlements) = 2
  /\ \E sn \in Snapshots : sn.cluster_id = "C1" /\ sn.entitlement_count = 2

\* the ids of a sequence of entitlements
EntitlementIds(ents) == [i \in 1..Len(ents) |-> ents[i].id]

\* C19: no duplicate entitlements in a snapshot. The ids of a snapshot's
\* entitlements are pairwise distinct, also when the row of the cluster names
\* an id more than once: in the snapshot process_cluster builds for any row of
\* the loaded table, in every snapshot a suspended call holds and in every
\* cached record.
NoDuplicateEntitlements ==
  /\ TablesLoaded(data_processor) =>
       \A r \in 1..Len(data_processor.cluster_summary.rows) :
         LET pc == ProcessCluster(data_processor, data_processor.cluster_summary.rows[r].Cluster_ID)
         IN  ~pc.raised => Distinct(EntitlementIds(pc.data.core_entitlements))
  /\ \A sn \in Snapshots : Distinct(EntitlementIds(sn.core_entitlements))
  /\ \A c \in ClusterIds :
       generated_roles[c] # None => Distinct(EntitlementIds(generated_roles[c].entitlements))

\* C20: missing source files degrade lazily. load_data_files with any of the
\* three files missing does not raise and skips that table; afterwards, with
\* the user table missing, process_cluster of an existing cluster returns a
\* snapshot whose user summary is empty (total_users = 0); with the catalog
\* missing it returns a snapshot with no entitlements; with the cluster table
\* missing get_all_cluster_ids returns the empty sequence and process_cluster
\* raises.
MissingFilesDegradeLazily ==
  LET ld == LoadDataFiles(data_processor, files)
      present == { f \in {"catalog", "clusters", "users"} : files[f] # Missing }
  IN  /\ (\A f \in present : files[f] # Corrupt) => ~ld.raised
      /\ (files.clusters = Missing /\ ~ld.raised) =>
           /\ GetAllClusterIds(ld.dp) = <<>>
           /\ \A cid \in ClusterIds : ProcessCluster(ld.dp, cid).raised
      /\ (~NeedsLoad(data_processor)
            /\ {"Cluster_ID", "Core_Entitlements"} \subseteq data_processor.cluster_summary.columns) =>
           \A r \in 1..Len(data_processor.cluster_summary.rows) :
             LET pc == ProcessCluster(data_processor,
                                      data_processor.cluster_summary.rows[r].Cluster_ID)
             IN  /\ files.users = Missing =>
                      (~pc.raised /\ pc.data.user_summary.total_users = 0)
                 /\ (files.catalog = Missing /\ ~pc.raised) =>
                      pc.data.core_entitlements = <<>>

\* the columns process_cluster and _create_user_summary read
ClusterColumns == {"Cluster_ID", "Core_Entitlements"}
UserColumns == {"Cluster_ID", "Job_Title", "Department"}

\* C21: structural validation happens at load time. load_data_files raises
\* when the cluster file or the user file lacks a required column, so that a
\* table held by the consolidator always has its required columns and no
\* process_cluster or generate call runs against a table that lacks one.
StructuralValidationAtLoad ==
  /\ (files.clusters \notin {Missing, Corrupt}
        /\ ~(ClusterColumns \subseteq files.clusters.columns)) =>
       LoadDataFiles(data_processor, files).raised
  /\ data_processor.cluster_summary # None =>
       ClusterColumns \subseteq data_processor.cluster_summary.columns
  /\ data_processor.user_metadata # None =>
       UserColumns \subseteq data_processor.user_metadata.columns

\* C22: every GeneratedRoleSet in the multi-option cache has exactly three
\* role_options, one of each naming style, whatever response the generate
\* call accepted.
ThreeOptionsOnePerStyle ==
  flavor = "multi" =>
    \A c \in ClusterIds :
      generated_roles[c] # None =>
        /\ Len(generated_roles[c].role_options) = 3
        /\ { generated_roles[c].role_options[i].style :
               i \in 1..Len(generated_roles[c].role_options) } = RoleStyle

\* C23: the risk level is always one of the four enum values. Every cached
\* record of either orchestrator has risk_level in {LOW, MEDIUM, HIGH,
\* CRITICAL}; a gateway mapping without risk_level gives a record with MEDIUM
\* and one without role_name gives the name "Role_<cluster_id>".
RiskLevelAlwaysValid ==
  /\ \A c \in ClusterIds :
       generated_roles[c] # None => generated_roles[c].risk_level \in RiskLevel
  /\ \A c \in ClusterIds :
       LET br == BuildRecord(flavor, c, JObject(EmptyObject),
                             [core_entitlements |-> <<>>, user_summary |-> EmptyDict], 1)
       IN  /\ ~br.raised
           /\ br.value.risk_level = "MEDIUM"
           /\ flavor = "single" => br.value.role_name = <<"Role_", c>>

\* C24: a batch never aborts early and terminates. When a batch returns, a
\* generate call has been made and has ended for every requested id, however
\* many of them raised, no child waits for a slot and every slot of the
\* semaphore is free; and with every sent request eventually answered and
\* every ready task eventually run, a batch that is running eventually returns.
BatchRunsToCompletion ==
  /\ [][\A b \in 1..Len(batches) :
          (Len(batches') = Len(batches) - 1 /\ BatchReturn(b)) =>
            /\ Len(batches[b].children) = Len(batches[b].ids)
            /\ \A k \in 1..Len(batches[b].ids) :
                 /\ batches[b].children[k].cid = batches[b].ids[k]
                 /\ batches[b].children[k].pc \in {"returned", "raised"}
            /\ batches[b].waiters = <<>>
            /\ batches[b].value = batches[b].limit
            /\ ret'.op = "batch" /\ ~ret'.raised]_vars
  /\ (Len(batches) > 0) ~> (Len(batches) = 0)

\* a batch of two ids returned an empty mapping: both generate calls raised
BatchReturnedAfterAllFailed ==
  /\ ret # None /\ ret.op = "batch" /\ ~ret.raised
  /\ Len(ret.ids) = 2
  /\ DOMAIN ret.value = {}
  /\ batches = <<>>

\* C25: last response wins. The build-and-store step of a generate call whose
\* response arrives runs without interleaving: when a suspended call completes
\* without raising, also a forced call for an id for which another call is in
\* flight or has stored in the meantime, the cache entry of its id is the
\* record built from that one response and the call's own snapshot, with no
\* field taken from the record it replaces, every other entry is as before, and
\* the call returns that record. So after two concurrent calls have completed
\* the cache holds the record of the response that arrived last.
LastResponseWins ==
  [][\A k \in 1..Len(inflight) :
       (/\ Len(inflight') = Len(inflight) - 1
        /\ ret' # None /\ ret'.op = "generate" /\ ~ret'.raised
        /\ Complete(k)) =>
         LET cid == inflight[k].cid
         IN  /\ ret'.cid = cid /\ ret'.force = inflight[k].force
             /\ ret'.replaced = generated_roles[cid]
             /\ ret'.value = Ref(generated_roles'[cid])
             /\ \A c \in ClusterIds \ {cid} : generated_roles'[c] = generated_roles[c]
             /\ \E out \in ChainOutcomes(flavor) :
                  /\ ~out.raised
                  /\ generated_roles'[cid] =
                       BuildRecord(flavor, cid, out.value, inflight[k].cluster_data,
                                   NextOid(generated_roles, cid)).value ]_vars

\* a forced call that was the first to start was the last to end: it replaced
\* the record stored by a call that started after it and ended before it
OvertakenCallStoredLast ==
  /\ ret # None /\ ret.op = "generate" /\ ~ret.raised /\ ret.force
  /\ ret.loaded
  /\ ret.replaced # None
  /\ generated_roles[ret.cid].oid = ret.replaced.oid + 1
  /\ inflight = <<>>

\* C26: a review is lost only by forced regeneration. A step that takes a
\* cached record from reviewed to not reviewed is the completion of a
\* generate(cluster_id, force = true) for that id: a direct forced call that
\* runs to its end, or the arrival of the response of a suspended forced call.
ReviewLostOnlyToForcedRegeneration ==
  [][\A c \in ClusterIds :
       (/\ generated_roles[c] # None
        /\ generated_roles'[c] # None
        /\ generated_roles[c].reviewed
        /\ ~generated_roles'[c].reviewed) =>
         \/ Generate(c, TRUE)
         \/ \E k \in 1..Len(inflight) :
              inflight[k].cid = c /\ inflight[k].force /\ Complete(k) ]_vars

\* C27: selection is orthogonal to review (multi-option orchestrator). A
\* select_option(cluster_id, n, feedback) on a cached record succeeds, sets
\* selected_option to n and leaves reviewed and approved as they were; a
\* review_role_set on a cached record succeeds and leaves selected_option as it
\* was; either call on an id with no cached record raises and leaves the whole
\* cache unchanged. No other entry of the cache changes in any of these steps.
SelectionOrthogonalToReview ==
  [][/\ \A cid \in CallIds, n \in OptionNumbers, fb \in Feedbacks :
          (/\ flavor = "multi"
           /\ ret' # None /\ ret'.op = "select" /\ ret'.cid = cid
           /\ SelectOption(cid, n, fb)) =>
            IF generated_roles[cid] = None
            THEN ret'.raised /\ generated_roles' = generated_roles
            ELSE /\ ~ret'.raised
                 /\ generated_roles'[cid].selected_option = Some(n)
                 /\ generated_roles'[cid].reviewed = generated_roles[cid].reviewed
                 /\ generated_roles'[cid].approved = generated_roles[cid].approved
                 /\ \A c \in ClusterIds \ {cid} : generated_roles'[c] = generated_roles[c]
     /\ \A cid \in CallIds, approved \in BOOLEAN, fb \in Feedbacks :
          (/\ flavor = "multi"
           /\ ret' # None /\ ret'.op = "review" /\ ret'.cid = cid
           /\ Review(cid, approved, fb)) =>
            IF generated_roles[cid] = None
            THEN ret'.raised /\ generated_roles' = generated_roles
            ELSE /\ ~ret'.raised
                 /\ generated_roles'[cid].selected_option =
                      generated_roles[cid].selected_option
                 /\ \A c \in ClusterIds \ {cid} : generated_roles'[c] = generated_roles[c]
    ]_vars

\* the last call to end was a successful review of a role set in which an
\* option had been selected before, and the selection is still there
ReviewedWithSelectionKept ==
  /\ flavor = "multi"
  /\ ret # None /\ ret.op = "review" /\ ~ret.raised
  /\ generated_roles[ret.cid] # None
  /\ generated_roles[ret.cid].reviewed
  /\ \E n \in OptionNumbers : generated_roles[ret.cid].selected_option = Some(n)

\* C28: the reload after an upload reaches generation. While the tables of the
\* clusters module are those of the files now in INPUT_DIR, as they are after
\* an upload and its reload, a generate call that builds a snapshot builds it
\* from those tables: a call that runs to its end stores a record built from
\* that snapshot, and a call that is suspended in the gateway holds it.
UploadReloadReachesGeneration ==
  [][\A cid \in CallIds, force \in BOOLEAN :
       (/\ clusters_data_processor # NewDataProcessor
        /\ clusters_data_processor = LoadDataFiles(NewDataProcessor, files).dp
        /\ ~ProcessCluster(clusters_data_processor, cid).raised
        /\ ops' = ops + 1
        /\ Generate(cid, force)) =>
         LET fresh == ProcessCluster(clusters_data_processor, cid).data
         IN  /\ (Len(inflight') = Len(inflight) + 1) =>
                  inflight'[Len(inflight')].cluster_data = fresh
             /\ (/\ Len(inflight') = Len(inflight)
                 /\ ret' # None /\ ret'.op = "generate" /\ ret'.cid = cid
                 /\ ret'.called /\ ~ret'.raised) =>
                  \E out \in NetOutcomes(flavor) :
                    \E resp \in {GenerateDirect(CreatePrompt(fresh), out)} :
                      /\ ~resp.raised
                      /\ generated_roles'[cid] =
                           BuildRecord(flavor, cid, resp.value, fresh,
                                       NextOid(generated_roles, cid)).value ]_vars

\* gateway calls in flight that the first n running batches started
RECURSIVE BatchCallsInFlight(_)
BatchCallsInFlight(n) ==
  IF n = 0 THEN 0 ELSE Cardinality(InFlight(n)) + BatchCallsInFlight(n - 1)

\* concurrent_limit of the first n running batches, added up
RECURSIVE SumOfLimits(_)
SumOfLimits(n) == IF n = 0 THEN 0 ELSE batches[n].limit + SumOfLimits(n - 1)

\* gateway calls in flight on the orchestrator: direct calls and batch children
TotalInFlight == Len(inflight) + BatchCallsInFlight(Len(batches))

TableReflects(new, old, file) ==
  IF file = Missing THEN new = old ELSE file # Corrupt /\ new = file

\* C30: reload is all-or-nothing and idempotent. A step in which load() changes
\* the consolidator leaves all three tables agreeing with the current sources;
\* otherwise, also when load() raises, all three are as before. And a second
\* load() over unchanged sources leaves the tables as the first left them.
ReloadAllOrNothing ==
  /\ [][data_processor' # data_processor =>
          /\ TableReflects(data_processor'.entitlement_metadata,
                           data_processor.entitlement_metadata, files.catalog)
          /\ TableReflects(data_processor'.cluster_summary,
                           data_processor.cluster_summary, files.clusters)
          /\ TableReflects(data_processor'.user_metadata,
                           data_processor.user_metadata, files.users)]_vars
  /\ [](LoadDataFiles(LoadDataFiles(data_processor, files).dp, files).dp =
          LoadDataFiles(data_processor, files).dp)

====
